---- MODULE Spec2Model ----
(***************************************************************************)
(* Space Hulk Tracker (src/app.js, second revision starting at line 524):  *)
(* the countdown clock with its tick and alarm intervals, the fixed and    *)
(* custom point counters and the visibility map.                           *)
(***************************************************************************)
EXTENDS Integers, Sequences, FiniteSets, TLC

VARIABLES
    state,            \* the module-level `state` object
    intervals,        \* the host's active setInterval registrations
    timerDisplay,     \* the class list of the .timer-display element
    storage,          \* localStorage under the key spaceHulkTracker
    storageFull,      \* the host: localStorage.setItem throws
    lowStyle,         \* the refs of the counters whose .points-value element has
                      \* the class low
    lastOp,           \* observer: the timer handler that ran last and its argument,
                      \* "load" after a page load, or "counter" after any other
                      \* handler (points, custom trackers, visibility, beforeunload)
    run,              \* observer: the run begun by the last effective startTimer
    chimes,           \* observer: chimes played since the last resetTimer, and
                      \* whether that reset followed a run that played both
    issued,           \* observer: the highest id addCustomTracker has issued,
                      \* in this page session or an earlier one; 0 if none
    fired,            \* observer: how often playTimerEndSound has run since the
                      \* remaining time was last above 0:00 on this page
    sw                \* the service worker: its cache space-hulk-tracker-v1 and,
                      \* as observer, its last event and what that event did

vars == <<state, intervals, timerDisplay, storage, storageFull, lowStyle, lastOp, run,
          chimes, issued, fired, sw>>

timer == state.timer
psychicPoints == state.psychicPoints
cannonPoints == state.cannonPoints
commandPoints == state.commandPoints
customTrackers == state.customTrackers
nextTrackerId == state.nextTrackerId
visibility == state.visibility

progVars == <<state, intervals, timerDisplay, storage>>
counterVars == <<psychicPoints, cannonPoints, commandPoints,
                 customTrackers, nextTrackerId, visibility>>
timerVars == <<timer, intervals, timerDisplay, run, chimes>>

----------------------------------------------------------------------------
(* Bounds of the model *)

\* setTimerMinutes is tried with every integer text -MaxMinutesInput..MaxMinutesInput
\* and with a text that parseInt cannot read
MaxMinutesInput == 2
\* adjustPoints(+1) is tried while a counter is less than MaxAbove over its default
MaxAbove == 1
\* addCustomTracker is tried while state.nextTrackerId <= MaxTrackerId
MaxTrackerId == 1
\* addCustomTracker is tried with every integer default text
\* -MaxDefaultInput..MaxDefaultInput and with a text that parseInt cannot read
MaxDefaultInput == 1
\* observer counters saturate here
MaxCount == 2
\* in a page session addCustomTracker is tried while state.nextTrackerId <= MaxSessionId
MaxSessionId == 3
\* in a page session the tick is tried during the first MaxSessionTicks seconds
\* of the configured duration
MaxSessionTicks == 1

\* how far from their defaults the counters are taken, in all, where setItem
\* can throw
MaxDrift == 1

\* how many properties of the stored object may be out of date at a time
MaxStale == 1

\* the versions of a file the server hands out
MaxBody == 1

----------------------------------------------------------------------------
(* Program constants *)

NULL == 0                     \* null handle; setInterval returns positive ids
InitialMinutes == 3
MinMinutes == 1
MaxMinutes == 60
FallbackMinutes == 3
OneMinuteSeconds == 60
WarningSeconds == 30
DangerSeconds == 10
ThirtySeconds == 30
SecondsPerMinute == 60
InitialPsychic == 20
InitialCannon == 10
InitialCommand == 0
FallbackDefault == 10
InitialTrackerId == 1
LowMax == 3

Max(a, b) == IF a >= b THEN a ELSE b
Min(a, b) == IF a <= b THEN a ELSE b

\* A text field's content as parseInt sees it: an integer, or not a number
Num(n) == [ok |-> TRUE, n |-> n]
NaN == [ok |-> FALSE, n |-> 0]

\* JavaScript `parseInt(text) || fallback`: NaN and 0 are both falsy
OrElse(p, fallback) == IF p.ok /\ p.n # 0 THEN p.n ELSE fallback

----------------------------------------------------------------------------
(* The host's interval timers *)

\* setInterval: a handle that no active interval carries
FreshId(ivs) == CHOOSE i \in 1..(Cardinality(ivs) + 1) : i \notin {iv.id : iv \in ivs}

setInterval(ivs, kind) == ivs \cup {[id |-> FreshId(ivs), kind |-> kind]}

clearInterval(ivs, id) == {iv \in ivs : iv.id # id}

TickIntervals == {iv \in intervals : iv.kind = "tick"}
AlarmIntervals == {iv \in intervals : iv.kind = "alarm"}

----------------------------------------------------------------------------
(* Timer functions, as functions of w = [timer, intervals, display]:
   state.timer, the host's intervals and the class list of .timer-display *)

totalSeconds(t) == t.minutes * SecondsPerMinute + t.seconds

updateTimerDisplay(w) ==
    LET total == totalSeconds(w.timer)
        cleared == w.display \ {"warning", "danger"}
    IN  [w EXCEPT !.display =
            IF total <= WarningSeconds /\ total > DangerSeconds THEN cleared \cup {"warning"}
            ELSE IF total <= DangerSeconds THEN cleared \cup {"danger"}
            ELSE cleared]

\* pauseTimer without its clearInterval call
pauseTimer_keepsInterval(w) ==
    IF ~w.timer.isRunning THEN w
    ELSE [w EXCEPT !.timer.isRunning = FALSE, !.timer.intervalId = NULL]

pauseTimer(w) ==
    IF ~w.timer.isRunning THEN w
    ELSE IF w.timer.intervalId # NULL
         THEN [w EXCEPT !.timer.isRunning = FALSE,
                        !.timer.intervalId = NULL,
                        !.intervals = clearInterval(w.intervals, w.timer.intervalId)]
         ELSE [w EXCEPT !.timer.isRunning = FALSE]

stopTimer(w) == pauseTimer(w)

stopAlarm(w) ==
    LET s == IF w.timer.alarmIntervalId # NULL
             THEN [w EXCEPT !.timer.alarmIntervalId = NULL,
                            !.intervals = clearInterval(w.intervals, w.timer.alarmIntervalId)]
             ELSE w
    IN  [s EXCEPT !.display = s.display \ {"danger"}]

startContinuousAlarm(w) ==
    LET s == stopAlarm(w)
    IN  [s EXCEPT !.timer.alarmIntervalId = FreshId(s.intervals),
                  !.intervals = setInterval(s.intervals, "alarm")]

\* playTimerEndSound that plays the alarm once and starts no interval
playTimerEndSound_noInterval(w) == [w EXCEPT !.display = w.display \cup {"danger"}]

playTimerEndSound(w) ==
    startContinuousAlarm([w EXCEPT !.display = w.display \cup {"danger"}])

\* startTimer without its `if (state.timer.isRunning) return`
startTimer_noGuard(w) ==
    [w EXCEPT !.timer.isRunning = TRUE,
              !.timer.intervalId = FreshId(w.intervals),
              !.intervals = setInterval(w.intervals, "tick")]

startTimer(w) ==
    IF w.timer.isRunning THEN w
    ELSE [w EXCEPT !.timer.isRunning = TRUE,
                   !.timer.intervalId = FreshId(w.intervals),
                   !.intervals = setInterval(w.intervals, "tick")]

\* resetTimer without the two chime-flag assignments
resetTimer_keepsFlags(w) ==
    LET s == stopAlarm(pauseTimer(w))
    IN  updateTimerDisplay([s EXCEPT !.timer.minutes = s.timer.defaultMinutes,
                                     !.timer.seconds = 0])

\* resetTimer without its stopAlarm() call
resetTimer_noStopAlarm(w) ==
    LET s == pauseTimer(w)
    IN  updateTimerDisplay([s EXCEPT !.timer.minutes = s.timer.defaultMinutes,
                                     !.timer.seconds = 0,
                                     !.timer.oneMinuteChimePlayed = FALSE,
                                     !.timer.thirtySecondChimePlayed = FALSE])

\* resetTimer without its pauseTimer() call
resetTimer_noPause(w) ==
    LET s == stopAlarm(w)
    IN  updateTimerDisplay([s EXCEPT !.timer.minutes = s.timer.defaultMinutes,
                                     !.timer.seconds = 0,
                                     !.timer.oneMinuteChimePlayed = FALSE,
                                     !.timer.thirtySecondChimePlayed = FALSE])

\* resetTimer up to its saveState() call
resetTimer(w) ==
    LET s == stopAlarm(pauseTimer(w))
    IN  updateTimerDisplay([s EXCEPT !.timer.minutes = s.timer.defaultMinutes,
                                     !.timer.seconds = 0,
                                     !.timer.oneMinuteChimePlayed = FALSE,
                                     !.timer.thirtySecondChimePlayed = FALSE])

clampMinutes(minutes) == Max(MinMinutes, Min(MaxMinutes, OrElse(minutes, FallbackMinutes)))

\* setTimerMinutes that sets the remaining time even while the clock runs
setTimerMinutes_alwaysSetsRemaining(w, minutes) ==
    LET mins == clampMinutes(minutes)
    IN  updateTimerDisplay([w EXCEPT !.timer.defaultMinutes = mins,
                                     !.timer.minutes = mins,
                                     !.timer.seconds = 0])

\* setTimerMinutes up to its saveState() call
setTimerMinutes(w, minutes) ==
    LET mins == clampMinutes(minutes)
        s == [w EXCEPT !.timer.defaultMinutes = mins]
    IN  IF ~s.timer.isRunning
        THEN updateTimerDisplay([s EXCEPT !.timer.minutes = mins, !.timer.seconds = 0])
        ELSE s

\* which chime the interval callback plays before decrementing
chimeDue(t) ==
    IF totalSeconds(t) = OneMinuteSeconds /\ ~t.oneMinuteChimePlayed THEN "oneMinute"
    ELSE IF totalSeconds(t) = ThirtySeconds /\ ~t.thirtySecondChimePlayed THEN "thirtySecond"
    ELSE "none"

markChime(t) ==
    CASE chimeDue(t) = "oneMinute" -> [t EXCEPT !.oneMinuteChimePlayed = TRUE]
      [] chimeDue(t) = "thirtySecond" -> [t EXCEPT !.thirtySecondChimePlayed = TRUE]
      [] OTHER -> t

timerFinished(t) == t.seconds = 0 /\ t.minutes = 0

\* decrement that borrows a minute as 60 seconds instead of 59
decrement_borrow60(t) ==
    IF t.seconds = 0
    THEN [t EXCEPT !.minutes = t.minutes - 1, !.seconds = 60]
    ELSE [t EXCEPT !.seconds = t.seconds - 1]

\* decrement that drops the minute it borrows
decrement_noBorrow(t) ==
    IF t.seconds = 0
    THEN [t EXCEPT !.minutes = t.minutes - 1]
    ELSE [t EXCEPT !.seconds = t.seconds - 1]

decrement(t) ==
    IF t.seconds = 0
    THEN [t EXCEPT !.minutes = t.minutes - 1, !.seconds = 59]
    ELSE [t EXCEPT !.seconds = t.seconds - 1]

\* the callback startTimer hands to setInterval, up to its saveState() call;
\* the branch that finishes returns before updateTimerDisplay and saveState
tickCallback(w) ==
    LET w1 == [w EXCEPT !.timer = markChime(w.timer)]
    IN  IF timerFinished(w1.timer)
        THEN playTimerEndSound(stopTimer(w1))
        ELSE updateTimerDisplay([w1 EXCEPT !.timer = decrement(w1.timer)])

----------------------------------------------------------------------------
(* State persistence *)

\* a saveData object whose seconds are always 0
saveData_secondsZero(st) ==
    [timer |-> [minutes |-> st.timer.minutes,
                seconds |-> 0,
                defaultMinutes |-> st.timer.defaultMinutes],
     psychicPoints |-> st.psychicPoints,
     cannonPoints |-> st.cannonPoints,
     commandPoints |-> st.commandPoints,
     customTrackers |-> st.customTrackers,
     nextTrackerId |-> st.nextTrackerId,
     visibility |-> st.visibility]

\* the saveData object saveState builds
saveData(st) ==
    [timer |-> [minutes |-> st.timer.minutes,
                seconds |-> st.timer.seconds,
                defaultMinutes |-> st.timer.defaultMinutes],
     psychicPoints |-> st.psychicPoints,
     cannonPoints |-> st.cannonPoints,
     commandPoints |-> st.commandPoints,
     customTrackers |-> st.customTrackers,
     nextTrackerId |-> st.nextTrackerId,
     visibility |-> st.visibility]

\* localStorage under the key spaceHulkTracker after saveState, the write
\* taken to succeed: << >> when the key is absent, else <<the saved object>>
saveState(st) == <<saveData(st)>>

\* saveState() on st that drops the stored text when setItem throws
trySave_removesOnThrow(st) == IF storageFull THEN << >> ELSE saveState(st)

\* localStorage after saveState() on st: when setItem throws, the catch logs a
\* warning and the stored text stays as it was
trySave(st) == IF storageFull THEN storage ELSE saveState(st)

----------------------------------------------------------------------------
(* Points management and custom trackers, as functions of the `state` object c,
   each up to its saveState() call *)

\* ids whose keys the model forms: one more than addCustomTracker can issue
KeyIds == 1..(Max(MaxTrackerId, MaxSessionId) + 1)

\* the template literal `custom-${id}`, for every id in KeyIds
CustomKeys == [id \in KeyIds |-> "custom-" \o ToString(id)]

CustomKey(id) == CustomKeys[id]

\* type.startsWith('custom-'), for the keys the model forms
startsWithCustom(type) == \E i \in KeyIds : type = CustomKeys[i]

\* parseInt(type.replace('custom-', ''))
parseCustomId(type) == CHOOSE i \in KeyIds : type = CustomKeys[i]

\* customTrackers.find(t => t.id === id), as an index; 0 when there is none
findIndex(trackers, id) ==
    IF \E i \in 1..Len(trackers) : trackers[i].id = id
    THEN CHOOSE i \in 1..Len(trackers) :
            /\ trackers[i].id = id
            /\ \A j \in 1..(i - 1) : trackers[j].id # id
    ELSE 0

\* adjustPoints that forgets Math.max(0, ...)
adjusted_noFloor(value, delta) == value + delta

adjusted(value, delta) == Max(0, value + delta)

\* adjustPoints whose 'cannon' case writes state.psychicPoints
adjustPoints_cannonWritesPsychic(c, type, delta) ==
    CASE type = "psychic" -> [c EXCEPT !.psychicPoints = adjusted(c.psychicPoints, delta)]
      [] type = "cannon" -> [c EXCEPT !.psychicPoints = adjusted(c.cannonPoints, delta)]
      [] type = "command" -> [c EXCEPT !.commandPoints = adjusted(c.commandPoints, delta)]
      [] OTHER ->
           IF startsWithCustom(type)
           THEN LET i == findIndex(c.customTrackers, parseCustomId(type))
                IN  IF i # 0
                    THEN [c EXCEPT !.customTrackers[i].value =
                                       adjusted(c.customTrackers[i].value, delta)]
                    ELSE c
           ELSE c

adjustPoints(c, type, delta) ==
    CASE type = "psychic" -> [c EXCEPT !.psychicPoints = adjusted(c.psychicPoints, delta)]
      [] type = "cannon" -> [c EXCEPT !.cannonPoints = adjusted(c.cannonPoints, delta)]
      [] type = "command" -> [c EXCEPT !.commandPoints = adjusted(c.commandPoints, delta)]
      [] OTHER ->
           IF startsWithCustom(type)
           THEN LET i == findIndex(c.customTrackers, parseCustomId(type))
                IN  IF i # 0
                    THEN [c EXCEPT !.customTrackers[i].value =
                                       adjusted(c.customTrackers[i].value, delta)]
                    ELSE c
           ELSE c

resetPoints(c, type, defaultValue) ==
    CASE type = "psychic" -> [c EXCEPT !.psychicPoints = defaultValue]
      [] type = "cannon" -> [c EXCEPT !.cannonPoints = defaultValue]
      [] type = "command" -> [c EXCEPT !.commandPoints = defaultValue]
      [] OTHER -> c

resetCommandPoints(c) == [c EXCEPT !.commandPoints = 0]

\* String.prototype.trim on a text given as a sequence of characters
RECURSIVE trimStart(_)
trimStart(text) ==
    IF text # << >> /\ Head(text) = " " THEN trimStart(Tail(text)) ELSE text

RECURSIVE trimEnd(_)
trimEnd(text) ==
    IF text # << >> /\ text[Len(text)] = " "
    THEN trimEnd(SubSeq(text, 1, Len(text) - 1))
    ELSE text

trim(text) == trimEnd(trimStart(text))

\* Math.max(0, parseInt(defaultInput.value) || 10)
parseDefault(text) == Max(0, OrElse(text, FallbackDefault))

deleteKey(vis, key) == [k \in DOMAIN vis \ {key} |-> vis[k]]

setKey(vis, key, value) == [k \in DOMAIN vis \cup {key} |-> IF k = key THEN value ELSE vis[k]]

\* addCustomTracker that takes the id before it looks at the name
addCustomTracker_countsFirst(c, nameText, defaultText) ==
    LET name == trim(nameText)
        defaultValue == parseDefault(defaultText)
        tracker == [id |-> c.nextTrackerId, name |-> name,
                    defaultValue |-> defaultValue, value |-> defaultValue]
    IN  IF name = << >> THEN [c EXCEPT !.nextTrackerId = c.nextTrackerId + 1]
        ELSE [c EXCEPT !.nextTrackerId = c.nextTrackerId + 1,
                       !.customTrackers = Append(c.customTrackers, tracker),
                       !.visibility = setKey(c.visibility, CustomKey(tracker.id), TRUE)]

\* addCustomTracker with unshift in place of push
addCustomTracker_unshift(c, nameText, defaultText) ==
    LET name == trim(nameText)
        defaultValue == parseDefault(defaultText)
        tracker == [id |-> c.nextTrackerId, name |-> name,
                    defaultValue |-> defaultValue, value |-> defaultValue]
    IN  IF name = << >> THEN c
        ELSE [c EXCEPT !.nextTrackerId = c.nextTrackerId + 1,
                       !.customTrackers = <<tracker>> \o c.customTrackers,
                       !.visibility = setKey(c.visibility, CustomKey(tracker.id), TRUE)]

\* addCustomTracker that numbers the tracker by the length of the list
addCustomTracker_idFromLength(c, nameText, defaultText) ==
    LET name == trim(nameText)
        defaultValue == parseDefault(defaultText)
        tracker == [id |-> Len(c.customTrackers) + 1, name |-> name,
                    defaultValue |-> defaultValue, value |-> defaultValue]
    IN  IF name = << >> THEN c
        ELSE [c EXCEPT !.nextTrackerId = Len(c.customTrackers) + 2,
                       !.customTrackers = Append(c.customTrackers, tracker),
                       !.visibility = setKey(c.visibility, CustomKey(tracker.id), TRUE)]

addCustomTracker(c, nameText, defaultText) ==
    LET name == trim(nameText)
        defaultValue == parseDefault(defaultText)
        tracker == [id |-> c.nextTrackerId, name |-> name,
                    defaultValue |-> defaultValue, value |-> defaultValue]
    IN  IF name = << >> THEN c
        ELSE [c EXCEPT !.nextTrackerId = c.nextTrackerId + 1,
                       !.customTrackers = Append(c.customTrackers, tracker),
                       !.visibility = setKey(c.visibility, CustomKey(tracker.id), TRUE)]

\* resetCustomTracker that restores the fallback default of addCustomTracker
\* instead of tracker.defaultValue
resetCustomTracker_toFallback(c, id) ==
    LET i == findIndex(c.customTrackers, id)
    IN  IF i # 0
        THEN [c EXCEPT !.customTrackers[i].value = FallbackDefault]
        ELSE c

resetCustomTracker(c, id) ==
    LET i == findIndex(c.customTrackers, id)
    IN  IF i # 0
        THEN [c EXCEPT !.customTrackers[i].value = c.customTrackers[i].defaultValue]
        ELSE c

\* customTrackers.filter(t => t.id !== id)
RECURSIVE filterOut(_, _)
filterOut(trackers, id) ==
    IF trackers = << >> THEN << >>
    ELSE IF Head(trackers).id # id
         THEN <<Head(trackers)>> \o filterOut(Tail(trackers), id)
         ELSE filterOut(Tail(trackers), id)

\* removeCustomTracker without its delete state.visibility[...]
removeCustomTracker_keepsKey(c, id) ==
    [c EXCEPT !.customTrackers = filterOut(c.customTrackers, id)]

removeCustomTracker(c, id) ==
    [c EXCEPT !.customTrackers = filterOut(c.customTrackers, id),
              !.visibility = deleteKey(c.visibility, CustomKey(id))]

----------------------------------------------------------------------------
(* Tracker visibility, as functions of the `state` object c, each up to its
   saveState() call *)

\* the truthiness of state.visibility[tracker]: a key the map lacks reads as
\* undefined, which is falsy
truthyAt(vis, tracker) == tracker \in DOMAIN vis /\ vis[tracker]

\* state.visibility[tracker] = !state.visibility[tracker]
toggleTrackerVisibility(c, tracker) ==
    [c EXCEPT !.visibility = setKey(c.visibility, tracker, ~truthyAt(c.visibility, tracker))]

\* the menu checkbox of a tracker: the page's three fixed ones, and the one
\* addCustomTrackerMenuItem made for each rendered custom tracker
hasCheckbox(c, tracker) ==
    \/ tracker \in {"librarian", "cannon", "command"}
    \/ \E i \in 1..Len(c.customTrackers) : CustomKey(c.customTrackers[i].id) = tracker

\* checked is the checkbox's state when its change event arrives
handleMenuCheckboxChange(c, tracker, checked) ==
    IF hasCheckbox(c, tracker)
    THEN [c EXCEPT !.visibility = setKey(c.visibility, tracker, checked)]
    ELSE c

----------------------------------------------------------------------------
(* The low style of the points elements *)

\* the value adjustPoints(type, ...) reads, and that counter's default
valueOf(c, type) ==
    CASE type = "psychic" -> c.psychicPoints
      [] type = "cannon" -> c.cannonPoints
      [] type = "command" -> c.commandPoints
      [] OTHER ->
           IF startsWithCustom(type) /\ findIndex(c.customTrackers, parseCustomId(type)) # 0
           THEN c.customTrackers[findIndex(c.customTrackers, parseCustomId(type))].value
           ELSE 0

defaultOf(c, type) ==
    CASE type = "psychic" -> InitialPsychic
      [] type = "cannon" -> InitialCannon
      [] type = "command" -> InitialCommand
      [] OTHER ->
           IF startsWithCustom(type) /\ findIndex(c.customTrackers, parseCustomId(type)) # 0
           THEN c.customTrackers[findIndex(c.customTrackers, parseCustomId(type))].defaultValue
           ELSE 0

\* updatePointsStyle that also gives a 0 the class
updatePointsStyle_zeroIsLow(low, ref, value) ==
    IF value <= LowMax THEN low \cup {ref} ELSE low \ {ref}

\* updatePointsStyle(element, value) on the element of the counter ref
updatePointsStyle(low, ref, value) ==
    IF value <= LowMax /\ value > 0 THEN low \cup {ref} ELSE low \ {ref}

\* document.getElementById finds the points element of the counter ref of c
hasPointsElement(c, ref) ==
    \/ ref \in {"psychic", "cannon", "command"}
    \/ startsWithCustom(ref) /\ findIndex(c.customTrackers, parseCustomId(ref)) # 0

\* the low classes after adjustPoints(type, delta) took c to `after`
adjustPointsStyle(c, after, low, type) ==
    IF hasPointsElement(c, type)
    THEN updatePointsStyle(low, type, valueOf(after, type))
    ELSE low

\* the low classes after resetCustomTracker(id) on c
resetCustomTrackerStyle(c, low, id) ==
    IF findIndex(c.customTrackers, id) # 0
    THEN updatePointsStyle(low, CustomKey(id),
                           c.customTrackers[findIndex(c.customTrackers, id)].defaultValue)
    ELSE low

----------------------------------------------------------------------------
(* Loading the saved state.  A stored text is modelled by what JSON.parse
   does with it: the object it returns, as a record that has a field exactly
   when the object has the property, or SyntaxErrorText for a text on which it
   throws. *)

SyntaxErrorText == [syntaxError |-> TRUE]

\* JSON.parse(text) returns
parses(text) == text # SyntaxErrorText

LoadedMinutes == 3
LoadedSeconds == 0
LoadedDefaultMinutes == 3
LoadedPsychic == 20
LoadedCannon == 10
LoadedCommand == 0
LoadedTrackerId == 1

\* data[key] !== undefined
Has(data, key) == key \in DOMAIN data

\* data[key] ?? fallback
Nullish(data, key, fallback) == IF Has(data, key) THEN data[key] ELSE fallback

\* data[key] || fallback, for a number: a missing property and 0 are falsy
Falsy(data, key, fallback) ==
    IF Has(data, key) /\ data[key] # 0 THEN data[key] ELSE fallback

\* { ...a, ...b }
spread(a, b) == [k \in DOMAIN a \cup DOMAIN b |-> IF k \in DOMAIN b THEN b[k] ELSE a[k]]

\* loadState that reads the timer fields with || instead of ??
loadState_orInsteadOfNullish(c, stored) ==
    IF stored = << >> \/ ~parses(stored[1]) THEN c
    ELSE
    LET data == stored[1]
        tm == IF Has(data, "timer")
              THEN [c.timer EXCEPT
                      !.minutes = Falsy(data.timer, "minutes", LoadedMinutes),
                      !.seconds = Falsy(data.timer, "seconds", LoadedSeconds),
                      !.defaultMinutes = Falsy(data.timer, "defaultMinutes", LoadedDefaultMinutes)]
              ELSE c.timer
        merged == IF Has(data, "visibility")
                  THEN spread(c.visibility, data.visibility)
                  ELSE c.visibility
        seeded == IF Has(data, "showLibrarian") /\ ~Has(data, "visibility")
                  THEN setKey(merged, "librarian", data.showLibrarian)
                  ELSE merged
    IN  [timer |-> tm,
         psychicPoints |-> Nullish(data, "psychicPoints", LoadedPsychic),
         cannonPoints |-> Nullish(data, "cannonPoints", LoadedCannon),
         commandPoints |-> Nullish(data, "commandPoints", LoadedCommand),
         customTrackers |-> IF Has(data, "customTrackers")
                            THEN data.customTrackers ELSE c.customTrackers,
         nextTrackerId |-> IF Has(data, "customTrackers")
                           THEN Falsy(data, "nextTrackerId", LoadedTrackerId)
                           ELSE c.nextTrackerId,
         visibility |-> deleteKey(deleteKey(seeded, "timer"), "custom")]

\* loadState that takes the legacy showLibrarian whenever the snapshot has it
loadState_legacyAlways(c, stored) ==
    IF stored = << >> \/ ~parses(stored[1]) THEN c
    ELSE
    LET data == stored[1]
        tm == IF Has(data, "timer")
              THEN [c.timer EXCEPT
                      !.minutes = Nullish(data.timer, "minutes", LoadedMinutes),
                      !.seconds = Nullish(data.timer, "seconds", LoadedSeconds),
                      !.defaultMinutes = Nullish(data.timer, "defaultMinutes", LoadedDefaultMinutes)]
              ELSE c.timer
        merged == IF Has(data, "visibility")
                  THEN spread(c.visibility, data.visibility)
                  ELSE c.visibility
        seeded == IF Has(data, "showLibrarian")
                  THEN setKey(merged, "librarian", data.showLibrarian)
                  ELSE merged
    IN  [timer |-> tm,
         psychicPoints |-> Nullish(data, "psychicPoints", LoadedPsychic),
         cannonPoints |-> Nullish(data, "cannonPoints", LoadedCannon),
         commandPoints |-> Nullish(data, "commandPoints", LoadedCommand),
         customTrackers |-> IF Has(data, "customTrackers")
                            THEN data.customTrackers ELSE c.customTrackers,
         nextTrackerId |-> IF Has(data, "customTrackers")
                           THEN Falsy(data, "nextTrackerId", LoadedTrackerId)
                           ELSE c.nextTrackerId,
         visibility |-> deleteKey(deleteKey(seeded, "timer"), "custom")]

\* loadState on the state object c with localStorage holding `stored`: nothing
\* stored skips the body, a text that does not parse throws into the catch
\* before any assignment, and a text that parses to an object with well-typed
\* properties is loaded; the timer display loadState refreshes is set by the
\* action that calls it
loadState(c, stored) ==
    IF stored = << >> \/ ~parses(stored[1]) THEN c
    ELSE
    LET data == stored[1]
        tm == IF Has(data, "timer")
              THEN [c.timer EXCEPT
                      !.minutes = Nullish(data.timer, "minutes", LoadedMinutes),
                      !.seconds = Nullish(data.timer, "seconds", LoadedSeconds),
                      !.defaultMinutes = Nullish(data.timer, "defaultMinutes", LoadedDefaultMinutes)]
              ELSE c.timer
        merged == IF Has(data, "visibility")
                  THEN spread(c.visibility, data.visibility)
                  ELSE c.visibility
        seeded == IF Has(data, "showLibrarian") /\ ~Has(data, "visibility")
                  THEN setKey(merged, "librarian", data.showLibrarian)
                  ELSE merged
    IN  [timer |-> tm,
         psychicPoints |-> Nullish(data, "psychicPoints", LoadedPsychic),
         cannonPoints |-> Nullish(data, "cannonPoints", LoadedCannon),
         commandPoints |-> Nullish(data, "commandPoints", LoadedCommand),
         customTrackers |-> IF Has(data, "customTrackers")
                            THEN data.customTrackers ELSE c.customTrackers,
         nextTrackerId |-> IF Has(data, "customTrackers")
                           THEN Falsy(data, "nextTrackerId", LoadedTrackerId)
                           ELSE c.nextTrackerId,
         visibility |-> deleteKey(deleteKey(seeded, "timer"), "custom")]

----------------------------------------------------------------------------
(* The service worker (src/unnamed/part_000): its cache as a function from
   request urls to responses, and its event handlers *)

StatusOk == 200

\* a status other than 200, as the server gives for a file it does not have
StatusNotFound == 404

CACHE_NAME == "space-hulk-tracker-v1"

urlsToCache ==
    {"/", "/index.html", "/styles.css", "/app.js", "/manifest.json",
     "/icon-192.png", "/icon-512.png"}

\* the font stylesheet the page links from another origin
FontUrl == "https://fonts.googleapis.com/css2"

\* the urls of the page's GET requests in the model: two files of the manifest,
\* a same-origin file outside it, and the cross-origin stylesheet
FetchUrls == {"/", "/app.js", "/favicon.ico", FontUrl}

sameOrigin(url) == url # FontUrl

Bodies == 1..MaxBody

\* no response: before the first fetch event, and for events that deliver none
NoResponse == [status |-> 0, type |-> "none", body |-> 0]

\* fetch() rejects: the network is down
NetworkFailure == [status |-> 0, type |-> "error", body |-> 0]

\* what fetch(request) can settle with: same-origin responses have the type
\* basic, cross-origin ones cors, or opaque with status 0
NetworkOutcomes(url) ==
    {NetworkFailure}
    \cup (IF sameOrigin(url)
          THEN {[status |-> st, type |-> "basic", body |-> b] :
                   st \in {StatusOk, StatusNotFound}, b \in Bodies}
          ELSE {[status |-> st, type |-> "cors", body |-> b] :
                   st \in {StatusOk, StatusNotFound}, b \in Bodies}
               \cup {[status |-> 0, type |-> "opaque", body |-> b] : b \in Bodies})

\* cache.put(request, response)
cachePut(cache, url, response) ==
    [u \in DOMAIN cache \cup {url} |-> IF u = url THEN response ELSE cache[u]]

\* the fetch listener that stores every response the network gives
onFetch_cachesEveryResponse(cache, url, net, writeOk) ==
    IF url \in DOMAIN cache
    THEN [cache |-> cache, delivered |-> cache[url], fetched |-> FALSE]
    ELSE IF net = NetworkFailure
    THEN [cache |-> cache, delivered |-> NetworkFailure, fetched |-> TRUE]
    ELSE [cache |-> IF writeOk THEN cachePut(cache, url, net) ELSE cache,
          delivered |-> net, fetched |-> TRUE]

\* the fetch listener on a GET request for url: net is what fetch() settles
\* with if it is called, writeOk whether caches.open and cache.put succeed;
\* `delivered` is what respondWith hands to the page (NetworkFailure when its
\* promise rejects), `fetched` whether fetch() was called
onFetch(cache, url, net, writeOk) ==
    IF url \in DOMAIN cache
    THEN [cache |-> cache, delivered |-> cache[url], fetched |-> FALSE]
    ELSE IF net = NetworkFailure
    THEN [cache |-> cache, delivered |-> NetworkFailure, fetched |-> TRUE]
    ELSE IF net.status # StatusOk
    THEN [cache |-> cache, delivered |-> net, fetched |-> TRUE]
    ELSE IF net.type # "basic"
    THEN [cache |-> cache, delivered |-> net, fetched |-> TRUE]
    ELSE [cache |-> IF writeOk THEN cachePut(cache, url, net) ELSE cache,
          delivered |-> net, fetched |-> TRUE]

\* the install listener: cache.addAll(urlsToCache) stores a 200 response for
\* every url of the manifest, or nothing when one of its requests fails
onInstall(cache, body, ok) ==
    IF ok
    THEN [u \in DOMAIN cache \cup urlsToCache |->
             IF u \in urlsToCache
             THEN [status |-> StatusOk, type |-> "basic", body |-> body]
             ELSE cache[u]]
    ELSE cache

\* the worker before its install event: the cache does not exist yet
InitWorker ==
    [cache |-> << >>, event |-> "none", request |-> "", delivered |-> NoResponse,
     fetched |-> FALSE]

----------------------------------------------------------------------------
(* Initial state: the module-level `state` object *)

W == [timer |-> state.timer, intervals |-> intervals, display |-> timerDisplay]

\* a timer function's result written back to the state object, the host and
\* the page
SetTimer(w) ==
    /\ state' = [state EXCEPT !.timer = w.timer]
    /\ intervals' = w.intervals
    /\ timerDisplay' = w.display

InitTimer ==
    [minutes |-> InitialMinutes, seconds |-> 0, isRunning |-> FALSE,
     intervalId |-> NULL, defaultMinutes |-> InitialMinutes,
     alarmIntervalId |-> NULL, oneMinuteChimePlayed |-> FALSE,
     thirtySecondChimePlayed |-> FALSE]

\* observer record of a handler invocation
Op(name, arg) == [name |-> name, arg |-> arg]
NoArg == NaN

InitRun == [from |-> 0, ticks |-> 0, fresh |-> FALSE, completions |-> 0]
InitChimes == [one |-> 0, thirty |-> 0, oneAt |-> 0 - 1, thirtyAt |-> 0 - 1,
               rearmed |-> FALSE]

\* the state object with a two-minute clock
InitState_twoMinutes ==
    [timer |-> [InitTimer EXCEPT !.minutes = 2, !.defaultMinutes = 2],
     psychicPoints |-> InitialPsychic,
     cannonPoints |-> InitialCannon,
     commandPoints |-> InitialCommand,
     customTrackers |-> << >>,
     nextTrackerId |-> InitialTrackerId,
     visibility |-> [k \in {"librarian", "cannon", "command"} |-> TRUE]]

InitState ==
    [timer |-> InitTimer,
     psychicPoints |-> InitialPsychic,
     cannonPoints |-> InitialCannon,
     commandPoints |-> InitialCommand,
     customTrackers |-> << >>,
     nextTrackerId |-> InitialTrackerId,
     visibility |-> [k \in {"librarian", "cannon", "command"} |-> TRUE]]

Init ==
    /\ state = InitState
    /\ intervals = {}
    /\ timerDisplay = {}
    /\ storage = << >>
    /\ storageFull = FALSE
    /\ lowStyle = {}
    /\ fired = 0
    /\ sw = InitWorker
    /\ lastOp = Op("init", NoArg)
    /\ run = InitRun
    /\ chimes = InitChimes
    /\ issued = 0

----------------------------------------------------------------------------
(* Timer actions *)

MinutesInputs == {Num(n) : n \in (0 - MaxMinutesInput)..MaxMinutesInput} \cup {NaN}

Bump(n) == Min(n + 1, MaxCount)

StartTimer ==
    /\ SetTimer(startTimer(W))
    /\ UNCHANGED storage
    /\ lastOp' = Op("start", NoArg)
    /\ UNCHANGED storageFull
    /\ UNCHANGED sw
    /\ UNCHANGED fired
    /\ UNCHANGED lowStyle
    /\ UNCHANGED issued
    /\ run' = IF timer.isRunning THEN run
              ELSE [from |-> IF timer.seconds = 0 THEN timer.minutes ELSE 0,
                    ticks |-> 0,
                    fresh |-> chimes.one = 0 /\ chimes.thirty = 0,
                    completions |-> 0]
    /\ UNCHANGED chimes

PauseTimer ==
    /\ SetTimer(pauseTimer(W))
    /\ UNCHANGED storage
    /\ lastOp' = Op("pause", NoArg)
    /\ UNCHANGED storageFull
    /\ UNCHANGED sw
    /\ UNCHANGED fired
    /\ UNCHANGED lowStyle
    /\ UNCHANGED issued
    /\ run' = IF timer.isRunning THEN [run EXCEPT !.from = 0, !.ticks = 0] ELSE run
    /\ UNCHANGED chimes

ResetTimer ==
    /\ SetTimer(resetTimer(W))
    /\ storage' = trySave(state')
    /\ lastOp' = Op("reset", NoArg)
    /\ UNCHANGED storageFull
    /\ UNCHANGED sw
    /\ fired' = IF totalSeconds(timer') = 0 THEN fired ELSE 0
    /\ UNCHANGED lowStyle
    /\ UNCHANGED issued
    /\ run' = InitRun
    /\ chimes' = [InitChimes EXCEPT
                   !.rearmed = chimes.one = 1 /\ chimes.thirty = 1]

SetTimerMinutes ==
    \E minutes \in MinutesInputs :
        /\ SetTimer(setTimerMinutes(W, minutes))
        /\ storage' = trySave(state')
        /\ lastOp' = Op("configure", minutes)
        /\ UNCHANGED storageFull
        /\ UNCHANGED sw
        /\ fired' = IF totalSeconds(timer') = 0 THEN fired ELSE 0
        /\ UNCHANGED lowStyle
        /\ UNCHANGED <<run, chimes, issued>>

Tick ==
    \E iv \in TickIntervals :
        /\ SetTimer(tickCallback(W))
        /\ storage' = IF timerFinished(timer) THEN storage ELSE trySave(state')
        /\ lastOp' = Op("tick", NoArg)
        /\ UNCHANGED storageFull
        /\ UNCHANGED sw
        /\ fired' = IF timerFinished(timer) THEN Bump(fired)
                  ELSE IF totalSeconds(timer') = 0 THEN fired ELSE 0
        /\ UNCHANGED lowStyle
        /\ UNCHANGED issued
        /\ run' = [run EXCEPT
                     !.ticks = IF run.from > 0 THEN run.ticks + 1 ELSE 0,
                     !.completions = IF timerFinished(timer)
                                     THEN Bump(run.completions) ELSE run.completions]
        /\ chimes' =
             CASE chimeDue(timer) = "oneMinute" ->
                    [chimes EXCEPT !.one = Bump(chimes.one), !.oneAt = totalSeconds(timer)]
               [] chimeDue(timer) = "thirtySecond" ->
                    [chimes EXCEPT !.thirty = Bump(chimes.thirty), !.thirtyAt = totalSeconds(timer)]
               [] OTHER -> chimes

\* the callback startContinuousAlarm hands to setInterval: playAlarmSound()
AlarmRepeat ==
    \E iv \in AlarmIntervals :
        /\ lastOp' = Op("alarm", NoArg)
        /\ UNCHANGED storageFull
        /\ UNCHANGED sw
        /\ UNCHANGED fired
        /\ UNCHANGED lowStyle
        /\ UNCHANGED <<state, intervals, timerDisplay, storage, run, chimes, issued>>

NextTimer ==
    \/ StartTimer
    \/ PauseTimer
    \/ ResetTimer
    \/ SetTimerMinutes
    \/ Tick
    \/ AlarmRepeat

SpecTimer == Init /\ [][NextTimer]_vars

\* the clock stands, or runs in the first MaxSessionTicks seconds of its
\* configured duration
EarlyOrStopped ==
    \/ ~timer.isRunning
    \/ totalSeconds(timer) > timer.defaultMinutes * SecondsPerMinute - MaxSessionTicks

\* the timer handlers, with the clock interrupted only early in a run
NextCountdown ==
    \/ StartTimer
    \/ Tick
    \/ AlarmRepeat
    \/ EarlyOrStopped /\ PauseTimer
    \/ EarlyOrStopped /\ ResetTimer
    \/ EarlyOrStopped /\ SetTimerMinutes

\* the host keeps calling the callback of an active tick interval
SpecTimerFair == Init /\ [][NextCountdown]_vars /\ WF_vars(Tick)

----------------------------------------------------------------------------
(* Counter actions *)

\* the page's reset buttons: resetPoints('psychic', 20), resetPoints('cannon', 10)
ResetPointsCalls == {<<"psychic", InitialPsychic>>, <<"cannon", InitialCannon>>}

\* the ids a handler is tried with: every id issued so far (listed or removed)
\* and the next one, which no tracker has yet
TriedIds == 1..nextTrackerId

\* the refs adjustPoints is tried with: the fixed counters, the custom keys of
\* listed, removed and never-created trackers, and a ref that names no counter
AdjustTypes == {"psychic", "cannon", "command", "librarian"} \cup {CustomKey(i) : i \in TriedIds}

NameInputs == {<< >>, <<" ">>, <<" ", "a", " ">>}

DefaultInputs == {Num(n) : n \in (0 - MaxDefaultInput)..MaxDefaultInput} \cup {NaN}

AdjustPoints ==
    \E type \in AdjustTypes, delta \in {1, 0 - 1} :
        /\ delta = 1 => valueOf(state, type) < defaultOf(state, type) + MaxAbove
        /\ state' = adjustPoints(state, type, delta)
        /\ storage' = trySave(state')
        /\ lastOp' = Op("counter", NoArg)
        /\ UNCHANGED storageFull
        /\ UNCHANGED sw
        /\ UNCHANGED fired
        /\ lowStyle' = adjustPointsStyle(state, state', lowStyle, type)
        /\ UNCHANGED <<intervals, timerDisplay, run, chimes, issued>>

ResetPoints ==
    \E call \in ResetPointsCalls :
        /\ state' = resetPoints(state, call[1], call[2])
        /\ storage' = trySave(state')
        /\ lastOp' = Op("counter", NoArg)
        /\ UNCHANGED storageFull
        /\ UNCHANGED sw
        /\ UNCHANGED fired
        /\ lowStyle' = updatePointsStyle(lowStyle, call[1], call[2])
        /\ UNCHANGED <<intervals, timerDisplay, run, chimes, issued>>

ResetCommandPoints ==
    /\ state' = resetCommandPoints(state)
    /\ storage' = trySave(state')
    /\ lastOp' = Op("counter", NoArg)
    /\ UNCHANGED storageFull
    /\ UNCHANGED sw
    /\ UNCHANGED fired
    /\ lowStyle' = updatePointsStyle(lowStyle, "command", 0)
    /\ UNCHANGED <<intervals, timerDisplay, run, chimes, issued>>

\* addCustomTracker with the two text fields holding nameText and defaultText;
\* it returns before saveState when the name is blank; the points element
\* renderCustomTracker creates has the class points-value only
AddCustomTrackerWith(nameText, defaultText) ==
    /\ state' = addCustomTracker(state, nameText, defaultText)
    /\ storage' = IF trim(nameText) = << >> THEN storage ELSE trySave(state')
    /\ lastOp' = Op("counter", NoArg)
    /\ UNCHANGED storageFull
    /\ UNCHANGED sw
    /\ UNCHANGED fired
    /\ UNCHANGED lowStyle
    /\ issued' = IF trim(nameText) = << >> THEN issued ELSE nextTrackerId
    /\ UNCHANGED <<intervals, timerDisplay, run, chimes>>

AddCustomTracker ==
    \E nameText \in NameInputs, defaultText \in DefaultInputs :
        /\ nextTrackerId <= MaxTrackerId
        /\ AddCustomTrackerWith(nameText, defaultText)

\* resetCustomTracker saves only when the id is listed
ResetCustomTracker ==
    \E id \in TriedIds :
        /\ state' = resetCustomTracker(state, id)
        /\ storage' = IF findIndex(customTrackers, id) = 0 THEN storage ELSE trySave(state')
        /\ lastOp' = Op("counter", NoArg)
        /\ UNCHANGED storageFull
        /\ UNCHANGED sw
        /\ UNCHANGED fired
        /\ lowStyle' = resetCustomTrackerStyle(state, lowStyle, id)
        /\ UNCHANGED <<intervals, timerDisplay, run, chimes, issued>>

RemoveCustomTracker ==
    \E id \in TriedIds :
        /\ state' = removeCustomTracker(state, id)
        /\ storage' = trySave(state')
        /\ lastOp' = Op("counter", NoArg)
        /\ UNCHANGED storageFull
        /\ UNCHANGED sw
        /\ UNCHANGED fired
        /\ lowStyle' = lowStyle \ {CustomKey(id)}
        /\ UNCHANGED <<intervals, timerDisplay, run, chimes, issued>>

NextCounters ==
    \/ AdjustPoints
    \/ ResetPoints
    \/ ResetCommandPoints
    \/ AddCustomTracker
    \/ ResetCustomTracker
    \/ RemoveCustomTracker

SpecCounters == Init /\ [][NextCounters]_vars

----------------------------------------------------------------------------
(* Page sessions: the page is loaded over what localStorage holds, trackers
   are added, removed, hidden and shown, the clock is started and ticks, and
   the page is left and loaded again *)

\* the saveData object of the first revision of saveState (src/app.js:382-395),
\* which has showLibrarian and no visibility map
legacySaveData(trackers, showLibrarian) ==
    [timer |-> [minutes |-> 1, seconds |-> 0, defaultMinutes |-> 1],
     psychicPoints |-> 18,
     cannonPoints |-> 0,
     commandPoints |-> 2,
     commandDrawn |-> 2,
     customTrackers |-> trackers,
     nextTrackerId |-> Len(trackers) + 1,
     showLibrarian |-> showLibrarian]

\* the saveData object of the version in between, in which the timer and a
\* generic custom section could be hidden: it has a visibility map with the
\* keys timer and custom, and still carries showLibrarian
midSaveData(showLibrarian) ==
    [timer |-> [minutes |-> 2, seconds |-> 0, defaultMinutes |-> 2],
     psychicPoints |-> 20,
     cannonPoints |-> 9,
     commandPoints |-> 0,
     customTrackers |-> << >>,
     nextTrackerId |-> 1,
     showLibrarian |-> showLibrarian,
     visibility |-> [k \in {"librarian", "cannon", "command", "timer", "custom"} |->
                        IF k = "librarian" THEN ~showLibrarian ELSE k # "timer"]]

\* a stored object that no version wrote: what saveState writes on a new page,
\* with a negative psychic value and a visibility entry for a custom tracker
\* that is not in the list
editedSaveData ==
    [saveData(InitState) EXCEPT
        !.psychicPoints = 0 - 1,
        !.visibility = setKey(@, CustomKey(2), FALSE)]

LegacyLists ==
    {<< >>, <<[id |-> 1, name |-> <<"a">>, defaultValue |-> FallbackDefault, value |-> 9]>>}

\* what localStorage holds under spaceHulkTracker when the page is first
\* loaded: nothing, a text that is not JSON, or what an earlier version saved
StoredSnapshots ==
    {<< >>, <<SyntaxErrorText>>}
    \cup {<<legacySaveData(trackers, show)>> : trackers \in LegacyLists, show \in BOOLEAN}
    \cup {<<midSaveData(show)>> : show \in BOOLEAN}

\* what localStorage holds when somebody has written it by hand
EditedSnapshots == {<<editedSaveData>>}

\* the highest id in a list; 0 for the empty list
maxId(trackers) ==
    IF trackers = << >> THEN 0
    ELSE CHOOSE m \in {trackers[i].id : i \in 1..Len(trackers)} :
            \A i \in 1..Len(trackers) : trackers[i].id <= m

\* the low classes of a new page once loadState has run over `stored` and
\* left the state object c: the three fixed counters are styled when a stored
\* object was loaded; renderCustomTracker gives no element the class
loadedLow(c, stored) ==
    IF stored = << >> \/ ~parses(stored[1]) THEN {}
    ELSE updatePointsStyle(
             updatePointsStyle(
                 updatePointsStyle({}, "psychic", c.psychicPoints),
                 "cannon", c.cannonPoints),
             "command", c.commandPoints)

\* the class list of .timer-display of a new page once loadState and the
\* DOMContentLoaded listener have called updateTimerDisplay
loadedDisplay(c) ==
    updateTimerDisplay([timer |-> c.timer, intervals |-> {}, display |-> {}]).display

\* the page constructed over what localStorage holds and its DOMContentLoaded
\* listener run
InitPage ==
    /\ state = loadState(InitState, storage)
    /\ storageFull = FALSE
    /\ lowStyle = loadedLow(state, storage)
    /\ fired = 0
    /\ sw = InitWorker
    /\ intervals = {}
    /\ timerDisplay = loadedDisplay(state)
    /\ lastOp = Op("init", NoArg)
    /\ run = InitRun
    /\ chimes = InitChimes
    /\ issued = maxId(state.customTrackers)

InitSession ==
    /\ storage \in StoredSnapshots
    /\ InitPage

InitEdited ==
    /\ storage \in EditedSnapshots
    /\ InitPage

\* the page is loaded again: a new `state` object, no intervals, a new
\* document, and the DOMContentLoaded listener runs loadState
DOMContentLoaded ==
    /\ state' = loadState(InitState, storage)
    /\ intervals' = {}
    /\ timerDisplay' = loadedDisplay(state')
    /\ lastOp' = Op("load", NoArg)
    /\ UNCHANGED storageFull
    /\ UNCHANGED sw
    /\ fired' = 0
    /\ lowStyle' = loadedLow(state', storage)
    /\ run' = InitRun
    /\ chimes' = InitChimes
    /\ UNCHANGED <<storage, issued>>

\* the beforeunload listener
BeforeUnload ==
    /\ storage' = trySave(state)
    /\ lastOp' = Op("counter", NoArg)
    /\ UNCHANGED storageFull
    /\ UNCHANGED sw
    /\ UNCHANGED fired
    /\ UNCHANGED lowStyle
    /\ UNCHANGED <<state, intervals, timerDisplay, run, chimes, issued>>

\* the custom trackers on the page, by their keys
ListedKeys == {CustomKey(customTrackers[i].id) : i \in 1..Len(customTrackers)}

\* the hide button renderCustomTracker gives every custom tracker
ToggleTrackerVisibility ==
    \E tracker \in ListedKeys :
        /\ state' = toggleTrackerVisibility(state, tracker)
        /\ storage' = trySave(state')
        /\ lastOp' = Op("counter", NoArg)
        /\ UNCHANGED storageFull
        /\ UNCHANGED sw
        /\ UNCHANGED fired
        /\ UNCHANGED lowStyle
        /\ UNCHANGED <<intervals, timerDisplay, run, chimes, issued>>

\* the menu checkboxes whose change is tried: of the three fixed sections,
\* which share one listener body, the librarian's; and every custom tracker's
MenuRefs == {"librarian"} \cup ListedKeys

\* the change listeners of the menu checkboxes
HandleMenuCheckboxChange ==
    \E tracker \in MenuRefs, checked \in BOOLEAN :
        /\ state' = handleMenuCheckboxChange(state, tracker, checked)
        /\ storage' = IF hasCheckbox(state, tracker) THEN trySave(state') ELSE storage
        /\ lastOp' = Op("counter", NoArg)
        /\ UNCHANGED storageFull
        /\ UNCHANGED sw
        /\ UNCHANGED fired
        /\ UNCHANGED lowStyle
        /\ UNCHANGED <<intervals, timerDisplay, run, chimes, issued>>

\* the default texts tried in a page session: one that gives default 0 and one
\* that gives default 10
SessionDefaultInputs == {Num(0 - 1), NaN}

SessionAddCustomTracker ==
    \E nameText \in NameInputs, defaultText \in SessionDefaultInputs :
        /\ nextTrackerId <= MaxSessionId
        /\ AddCustomTrackerWith(nameText, defaultText)

SessionTick ==
    /\ totalSeconds(timer) > timer.defaultMinutes * SecondsPerMinute - MaxSessionTicks
    /\ Tick

NextSession ==
    \/ DOMContentLoaded
    \/ BeforeUnload
    \/ SessionAddCustomTracker
    \/ RemoveCustomTracker
    \/ ToggleTrackerVisibility
    \/ HandleMenuCheckboxChange
    \/ StartTimer
    \/ SessionTick

SpecSession == InitSession /\ [][NextSession]_vars

\* the same page sessions over a storage written by hand
SpecEdited == InitEdited /\ [][NextSession]_vars

----------------------------------------------------------------------------
(* Every handler that saves, on one page, with a localStorage whose setItem
   can throw *)

\* the host: the storage fills up, or storing is switched off
FillStorage ==
    /\ ~storageFull
    /\ storageFull' = TRUE
    /\ lastOp' = Op("host", NoArg)
    /\ UNCHANGED <<state, intervals, timerDisplay, storage, lowStyle, run, chimes, issued,
                   fired, sw>>

\* the host: setItem works again
FreeStorage ==
    /\ storageFull
    /\ storageFull' = FALSE
    /\ lastOp' = Op("host", NoArg)
    /\ UNCHANGED <<state, intervals, timerDisplay, storage, lowStyle, run, chimes, issued,
                   fired, sw>>

\* how far the custom counters of a list are below their defaults, in all
RECURSIVE listDrift(_)
listDrift(trackers) ==
    IF trackers = << >> THEN 0
    ELSE Head(trackers).defaultValue - Head(trackers).value + listDrift(Tail(trackers))

\* no counter above its default, and the counters at most MaxDrift away from
\* their defaults in all
NearInitial ==
    /\ psychicPoints <= InitialPsychic
    /\ cannonPoints <= InitialCannon
    /\ \A i \in 1..Len(customTrackers) :
          customTrackers[i].value <= customTrackers[i].defaultValue
    /\ (InitialPsychic - psychicPoints) + (InitialCannon - cannonPoints)
          + (commandPoints - InitialCommand) + listDrift(customTrackers) <= MaxDrift

StorageAdjustPoints == AdjustPoints /\ NearInitial'

\* the clock is set to a number of minutes while it stands at its full duration
StorageSetTimerMinutes ==
    /\ totalSeconds(timer) = timer.defaultMinutes * SecondsPerMinute
    /\ SetTimerMinutes
    /\ lastOp'.arg.ok
    /\ lastOp'.arg.n >= MinMinutes

\* a tick among the first MaxSessionTicks seconds of the configured duration
StorageTick ==
    /\ totalSeconds(timer) <= timer.defaultMinutes * SecondsPerMinute
    /\ SessionTick

\* a tracker is added while none is listed
StorageAddCustomTracker ==
    \E nameText \in NameInputs, defaultText \in SessionDefaultInputs :
        /\ nextTrackerId <= MaxTrackerId
        /\ customTrackers = << >>
        /\ AddCustomTrackerWith(nameText, defaultText)

\* the properties of the saveData object that differ from what is stored (from
\* what a new page would store, while nothing is stored)
staleFields ==
    LET now == saveData(state)
        then == IF storage = << >> THEN saveData(InitState) ELSE storage[1]
    IN  {k \in DOMAIN now : now[k] # then[k]}

\* the clock as a new page has it
ClockUntouched == timer = InitTimer

\* the counters and the visibility map as a new page has them
CountersUntouched ==
    /\ psychicPoints = InitialPsychic
    /\ cannonPoints = InitialCannon
    /\ commandPoints = InitialCommand
    /\ customTrackers = << >>
    /\ visibility = InitState.visibility

\* the clock handlers, tried while the counters are untouched
StorageClockStep ==
    /\ CountersUntouched
    /\ \/ StartTimer
       \/ StorageTick
       \/ ResetTimer
       \/ StorageSetTimerMinutes

\* the counter and visibility handlers, tried while the clock is untouched
StorageCounterStep ==
    /\ ClockUntouched
    /\ \/ StorageAdjustPoints
       \/ ResetPoints
       \/ ResetCommandPoints
       \/ StorageAddCustomTracker
       \/ ResetCustomTracker
       \/ RemoveCustomTracker
       \/ ToggleTrackerVisibility
       \/ HandleMenuCheckboxChange

StorageStep ==
    \/ FillStorage
    \/ FreeStorage
    \/ StorageClockStep
    \/ StorageCounterStep

\* failed writes leave at most MaxStale properties behind what is stored
NextStorage == StorageStep /\ Cardinality(staleFields') <= MaxStale

SpecStorage == Init /\ [][NextStorage]_vars

----------------------------------------------------------------------------
(* The service worker's events *)

pageVars == <<state, intervals, timerDisplay, storage, storageFull, lowStyle, lastOp, run,
              chimes, issued, fired>>

Install ==
    \E body \in Bodies, ok \in BOOLEAN :
        /\ sw' = [cache |-> onInstall(sw.cache, body, ok), event |-> "install",
                  request |-> "", delivered |-> NoResponse, fetched |-> FALSE]
        /\ UNCHANGED pageVars

\* the activate listener deletes every cache but CACHE_NAME
Activate ==
    /\ sw' = [sw EXCEPT !.event = "activate", !.request = "",
                        !.delivered = NoResponse, !.fetched = FALSE]
    /\ UNCHANGED pageVars

Fetch ==
    \E url \in FetchUrls, writeOk \in BOOLEAN :
        \E net \in NetworkOutcomes(url) :
            LET r == onFetch(sw.cache, url, net, writeOk)
            IN  /\ sw' = [cache |-> r.cache, event |-> "fetch", request |-> url,
                          delivered |-> r.delivered, fetched |-> r.fetched]
                /\ UNCHANGED pageVars

NextWorker ==
    \/ Install
    \/ Activate
    \/ Fetch

SpecWorker == Init /\ [][NextWorker]_vars

----------------------------------------------------------------------------
(* Properties of the countdown clock, checked under SpecTimer *)

AlarmActive == AlarmIntervals # {}
TickActive == TickIntervals # {}
AtZero == timer.minutes = 0 /\ timer.seconds = 0
FlagsClear == ~timer.oneMinuteChimePlayed /\ ~timer.thirtySecondChimePlayed
\* the last handler was a tick of a run that startTimer began at d:00, d >= 1,
\* and that no pauseTimer or resetTimer has interrupted
InCountedRun == lastOp.name = "tick" /\ run.from >= 1

\* C2 as stated: after startTimer at d:00 and exactly d*60 uninterrupted ticks
\* the clock is Finished (not running, completion fired once) at 0:00.
C2_FinishedAfterDTimes60Ticks ==
    (InCountedRun /\ run.ticks = run.from * SecondsPerMinute) =>
        (~timer.isRunning /\ run.completions = 1 /\ AtZero)

\* C2 amended: after exactly d*60 uninterrupted ticks the clock shows 0:00 and
\* is still running with no completion fired; the tick after that, number
\* d*60 + 1, leaves it Finished at 0:00 with the completion fired exactly once.
C2_FinishedAfterOneMoreTick ==
    InCountedRun =>
        /\ run.ticks <= run.from * SecondsPerMinute + 1
        /\ (run.ticks = run.from * SecondsPerMinute =>
                timer.isRunning /\ run.completions = 0 /\ AtZero)
        /\ (run.ticks = run.from * SecondsPerMinute + 1 =>
                ~timer.isRunning /\ run.completions = 1 /\ AtZero)
        /\ (run.ticks < run.from * SecondsPerMinute =>
                timer.isRunning /\ run.completions = 0 /\ ~AtZero)

C2_Witness ==
    /\ InCountedRun
    /\ run.from = InitialMinutes
    /\ run.ticks = InitialMinutes * SecondsPerMinute + 1
    /\ ~timer.isRunning
    /\ run.completions = 1

\* C3: between two resets each chime plays at most once, the one-minute chime
\* only on a tick that finds 1:00 and the thirty-second chime only on a tick
\* that finds 0:30; in an uninterrupted run from 2:00 that begins with no
\* chime played since the last reset (or since construction), the one-minute
\* chime has played exactly once from tick 61 on and the thirty-second chime
\* exactly once from tick 91 on, so both have played once at completion.
C3_ChimesOncePerRun ==
    /\ chimes.one <= 1
    /\ chimes.thirty <= 1
    /\ (chimes.one = 1 => chimes.oneAt = OneMinuteSeconds)
    /\ (chimes.thirty = 1 => chimes.thirtyAt = ThirtySeconds)
    /\ (run.from = 2 /\ run.fresh) =>
          /\ chimes.one = (IF run.ticks >= 61 THEN 1 ELSE 0)
          /\ chimes.thirty = (IF run.ticks >= 91 THEN 1 ELSE 0)

\* a second run from 2:00 is complete: two resets ago the chimes had played
C3_Witness ==
    /\ run.from = 2
    /\ run.fresh
    /\ run.ticks = 121
    /\ chimes.rearmed
    /\ chimes.one = 1
    /\ chimes.thirty = 1
    /\ ~timer.isRunning

C5_ResetReturnsToIdle ==
    [][lastOp'.name = "reset" =>
          /\ ~timer'.isRunning
          /\ intervals' = {}
          /\ timer'.intervalId = NULL
          /\ timer'.alarmIntervalId = NULL
          /\ timer'.defaultMinutes = timer.defaultMinutes
          /\ timer'.minutes = timer.defaultMinutes
          /\ timer'.seconds = 0
          /\ FlagsClear']_vars

\* resetTimer has acted on a clock that was not at its configured duration
C5_Witness ==
    /\ lastOp.name = "reset"
    /\ timer.minutes = 1
    /\ timer.defaultMinutes = 1
    /\ intervals = {}

\* C6 as stated: setTimerMinutes on a clock that is not running sets the
\* remaining time to newDuration:00 and clears both chime flags.
C6_ConfigureClearsFlags ==
    (lastOp.name = "configure" /\ ~timer.isRunning) =>
        /\ timer.minutes = timer.defaultMinutes
        /\ timer.seconds = 0
        /\ FlagsClear

\* C7 as stated: setTimerMinutes(m) sets the configured duration to
\* max(1, min(60, m)) for every integer m.
C7_ConfigureClamps ==
    (lastOp.name = "configure" /\ lastOp.arg.ok) =>
        timer.defaultMinutes = Max(MinMinutes, Min(MaxMinutes, lastOp.arg.n))

\* at most one tick interval is active, one is active exactly when
\* state.timer.isRunning, and it is the one state.timer.intervalId names
C8_TickerInvariant ==
    /\ Cardinality(TickIntervals) <= 1
    /\ (TickActive <=> timer.isRunning)
    /\ (timer.intervalId # NULL <=> timer.isRunning)
    /\ \A iv \in TickIntervals : iv.id = timer.intervalId

\* C8: the ticker invariant above holds in every state, and startTimer invoked
\* while already running changes nothing and so creates no second ticker.
C8_SingleTicker ==
    /\ []C8_TickerInvariant
    /\ [][(lastOp'.name = "start" /\ timer.isRunning) => UNCHANGED progVars]_vars

\* startTimer was invoked in the middle of a run
C8_Witness ==
    /\ lastOp.name = "start"
    /\ timer.isRunning
    /\ run.from >= 1
    /\ run.ticks >= 1

\* C9: pauseTimer on a clock that is not running changes nothing; on a running
\* clock it clears the running flag and the tick interval and leaves remaining
\* time, configured duration, chime flags, alarm, counters, display and saved
\* snapshot as they were;
\* a tick only ever happens to a running clock.
C9_PauseFrame ==
    [][/\ (lastOp'.name = "pause" /\ ~timer.isRunning => UNCHANGED progVars)
       /\ (lastOp'.name = "pause" /\ timer.isRunning =>
              /\ timer' = [timer EXCEPT !.isRunning = FALSE, !.intervalId = NULL]
              /\ ~TickActive'
              /\ AlarmIntervals' = AlarmIntervals
              /\ UNCHANGED <<counterVars, timerDisplay, storage>>)
       /\ (lastOp'.name = "tick" => timer.isRunning)]_vars

\* pauseTimer has stopped a run part-way
C9_Witness ==
    /\ lastOp.name = "pause"
    /\ ~timer.isRunning
    /\ timer.seconds = 30
    /\ timer.oneMinuteChimePlayed
    /\ intervals = {}

\* C10 as stated: the clock is never running while an alarm interval is active.
C10_NoAlarmWhileRunning == ~(timer.isRunning /\ AlarmActive)

----------------------------------------------------------------------------
(* Properties of the counters, checked under SpecCounters *)

\* every fixed counter and every custom counter (value and default) is >= 0
C1_ValuesNonNegative ==
    /\ psychicPoints >= 0
    /\ cannonPoints >= 0
    /\ commandPoints >= 0
    /\ \A i \in 1..Len(customTrackers) :
          customTrackers[i].value >= 0 /\ customTrackers[i].defaultValue >= 0

\* C1: in every state reached by adjustPoints(+1/-1), the resets,
\* addCustomTracker and removeCustomTracker, every fixed counter and every
\* custom counter is >= 0, and adjustPoints(ref, -1) applied there to a counter
\* whose value is 0 leaves it at 0.
C1_FloorAtZero ==
    /\ C1_ValuesNonNegative
    /\ \A type \in AdjustTypes :
          valueOf(state, type) = 0 =>
              valueOf(adjustPoints(state, type, 0 - 1), type) = 0

\* every fixed counter and a custom counter have been brought down to 0
C1_Witness ==
    /\ lastOp.name = "counter"
    /\ psychicPoints = 0
    /\ cannonPoints = 0
    /\ commandPoints = 0
    /\ Len(customTrackers) >= 1
    /\ customTrackers[1].value = 0
    /\ customTrackers[1].defaultValue = 1

FixedRefs == {"psychic", "cannon", "command"}

\* the custom list of c holds a counter whose key is ref
ListedRef(c, ref) ==
    \E i \in 1..Len(c.customTrackers) : CustomKey(c.customTrackers[i].id) = ref

\* list `after` is list `before` with the value of every counter whose key is
\* ref replaced by newValue(old value); order, ids, names and defaults as before
SameListBut(before, after, ref, newValue(_)) ==
    /\ Len(after) = Len(before)
    /\ \A i \in 1..Len(before) :
          after[i] = IF CustomKey(before[i].id) = ref
                     THEN [before[i] EXCEPT !.value = newValue(before[i].value)]
                     ELSE before[i]

\* C11: adjustPoints(ref, +1/-1) on psychic, cannon, command or the key of a
\* listed custom counter sets that counter's value to max(0, value + delta) and
\* changes nothing else (the other fixed counters, every other custom counter,
\* ids, names and defaults, state.nextTrackerId, the visibility map, the clock);
\* with any other ref (a name that is no counter, the key of a removed or
\* never-created custom counter) the state object is unchanged.
C11_AdjustFrame ==
    \A ref \in AdjustTypes, delta \in {1, 0 - 1} :
        LET after == adjustPoints(state, ref, delta)
            Moved(v) == IF v + delta >= 0 THEN v + delta ELSE 0
        IN  IF ref \in FixedRefs \/ ListedRef(state, ref)
            THEN /\ after.psychicPoints =
                       IF ref = "psychic" THEN Moved(psychicPoints) ELSE psychicPoints
                 /\ after.cannonPoints =
                       IF ref = "cannon" THEN Moved(cannonPoints) ELSE cannonPoints
                 /\ after.commandPoints =
                       IF ref = "command" THEN Moved(commandPoints) ELSE commandPoints
                 /\ SameListBut(customTrackers, after.customTrackers, ref, Moved)
                 /\ after.nextTrackerId = nextTrackerId
                 /\ after.visibility = visibility
                 /\ after.timer = timer
            ELSE after = state

\* a listed custom counter stands one above its default and psychic one below,
\* cannon and command untouched
C11_Witness ==
    /\ lastOp.name = "counter"
    /\ Len(customTrackers) = 1
    /\ customTrackers[1].value = customTrackers[1].defaultValue + 1
    /\ psychicPoints = InitialPsychic - 1
    /\ cannonPoints = InitialCannon
    /\ commandPoints = InitialCommand

\* C12: the page's reset of psychic leaves psychicPoints at 20, of cannon leaves
\* cannonPoints at 10, resetCommandPoints leaves commandPoints at 0 and
\* resetCustomTracker(id) leaves the listed counter's value at its stored
\* defaultValue, whatever the value was; each changes nothing else in the state
\* object (no other counter, no id, name or default), and resetCustomTracker of
\* an id that is not listed changes nothing.
C12_ResetRestoresDefault ==
    /\ \A call \in ResetPointsCalls :
          resetPoints(state, call[1], call[2]) =
              CASE call[1] = "psychic" -> [state EXCEPT !.psychicPoints = 20]
                [] call[1] = "cannon" -> [state EXCEPT !.cannonPoints = 10]
    /\ resetCommandPoints(state) = [state EXCEPT !.commandPoints = 0]
    /\ \A id \in TriedIds :
          LET after == resetCustomTracker(state, id)
          IN  /\ Len(after.customTrackers) = Len(customTrackers)
              /\ \A i \in 1..Len(customTrackers) :
                    after.customTrackers[i] =
                        IF customTrackers[i].id = id
                        THEN [customTrackers[i] EXCEPT
                                 !.value = customTrackers[i].defaultValue]
                        ELSE customTrackers[i]
              /\ [after EXCEPT !.customTrackers = customTrackers] = state

\* every counter stands away from its default (the custom one, created with
\* default 10, at 11), so that each reset changes its counter
C12_Witness ==
    /\ psychicPoints = InitialPsychic + 1
    /\ cannonPoints = 0
    /\ commandPoints = 1
    /\ Len(customTrackers) = 1
    /\ customTrackers[1].defaultValue = FallbackDefault
    /\ customTrackers[1].value = FallbackDefault + 1
    /\ resetCustomTracker(state, customTrackers[1].id) # state
    /\ resetPoints(state, "cannon", InitialCannon) # state

\* C14 as stated: addCustomTracker with a name that is not blank stores
\* defaultValue = max(0, v) for every default text that is an integer v (so 0
\* for v = 0 and for v < 0), and 10 only for a text that is not an integer.
C14_DefaultClampsEveryInteger ==
    \A nameText \in NameInputs, defaultText \in DefaultInputs :
        (trim(nameText) # << >> /\ nextTrackerId \in KeyIds) =>
            LET after == addCustomTracker(state, nameText, defaultText)
                tracker == after.customTrackers[Len(after.customTrackers)]
            IN  tracker.defaultValue =
                    IF defaultText.ok
                    THEN (IF defaultText.n >= 0 THEN defaultText.n ELSE 0)
                    ELSE 10

----------------------------------------------------------------------------
(* Properties of custom trackers, visibility and persistence, checked under
   SpecSession *)

\* C13: a step of addCustomTracker whose name field is blank (empty, or spaces
\* only) leaves the state object, and so the custom list, state.nextTrackerId
\* and the visibility map, and the saved snapshot as they were.
C13_BlankNameRejected ==
    [][\A nameText \in NameInputs, defaultText \in SessionDefaultInputs :
          (trim(nameText) = << >> /\ AddCustomTrackerWith(nameText, defaultText))
              => UNCHANGED <<state, storage>>]_vars

\* on a page loaded over an empty localStorage a handler other than a timer
\* handler has run and nothing is saved: every such handler but the rejected
\* addCustomTracker saves
C13_Witness ==
    /\ lastOp.name = "counter"
    /\ storage = << >>
    /\ customTrackers = << >>
    /\ nextTrackerId = InitialTrackerId
    /\ issued = 0

\* C15: addCustomTracker with a name that is not blank appends one tracker to
\* the end of the list and leaves the entries before it as they were; the new
\* tracker has the id state.nextTrackerId had, the trimmed name, and its value
\* equal to its defaultValue; the visibility map gains custom-<id> = true and
\* is otherwise unchanged; state.nextTrackerId grows by exactly 1; the fixed
\* counters and the clock are unchanged.
C15_AddAppendsOne ==
    \A nameText \in NameInputs, defaultText \in DefaultInputs :
        (trim(nameText) # << >> /\ nextTrackerId <= MaxSessionId) =>
            LET after == addCustomTracker(state, nameText, defaultText)
                n == Len(customTrackers)
                key == CustomKey(nextTrackerId)
            IN  /\ Len(after.customTrackers) = n + 1
                /\ SubSeq(after.customTrackers, 1, n) = customTrackers
                /\ after.customTrackers[n + 1].id = nextTrackerId
                /\ after.customTrackers[n + 1].name = trim(nameText)
                /\ after.customTrackers[n + 1].value =
                       after.customTrackers[n + 1].defaultValue
                /\ DOMAIN after.visibility = DOMAIN visibility \cup {key}
                /\ after.visibility[key] = TRUE
                /\ \A k \in DOMAIN visibility \ {key} : after.visibility[k] = visibility[k]
                /\ after.nextTrackerId = nextTrackerId + 1
                /\ after.psychicPoints = psychicPoints
                /\ after.cannonPoints = cannonPoints
                /\ after.commandPoints = commandPoints
                /\ after.timer = timer

\* three trackers were added one after the other and all are listed, the
\* second one hidden
C15_Witness ==
    /\ Len(customTrackers) = 3
    /\ \A i \in 1..3 : customTrackers[i].id = i
    /\ customTrackers[1].defaultValue = 0
    /\ customTrackers[2].defaultValue = FallbackDefault
    /\ nextTrackerId = 4
    /\ issued = 3
    /\ visibility[CustomKey(2)] = FALSE
    /\ visibility[CustomKey(3)] = TRUE

\* C16: removeCustomTracker(id) of a listed id leaves the list without that
\* tracker, one shorter, the others in their order and with their contents,
\* and the visibility map without the key custom-<id> and otherwise as it was;
\* state.nextTrackerId, the fixed counters and the clock are unchanged; with an
\* id that is not listed the state object is unchanged.
C16_RemoveFrame ==
    \A id \in TriedIds :
        LET after == removeCustomTracker(state, id)
            listed == \E i \in 1..Len(customTrackers) : customTrackers[i].id = id
            Other(t) == t.id # id
        IN  /\ after.customTrackers = SelectSeq(customTrackers, Other)
            /\ listed => Len(after.customTrackers) = Len(customTrackers) - 1
            /\ DOMAIN after.visibility = DOMAIN visibility \ {CustomKey(id)}
            /\ \A k \in DOMAIN after.visibility : after.visibility[k] = visibility[k]
            /\ after.nextTrackerId = nextTrackerId
            /\ after.psychicPoints = psychicPoints
            /\ after.cannonPoints = cannonPoints
            /\ after.commandPoints = commandPoints
            /\ after.timer = timer
            /\ ~listed => after = state

\* of three trackers the middle one was removed
C16_Witness ==
    /\ Len(customTrackers) = 2
    /\ customTrackers[1].id = 1
    /\ customTrackers[2].id = 3
    /\ customTrackers[1].defaultValue # customTrackers[2].defaultValue
    /\ CustomKey(2) \notin DOMAIN visibility
    /\ visibility[CustomKey(3)] = FALSE
    /\ nextTrackerId = 4

\* the listed ids ascend along the list, none is above the highest id issued,
\* and that one is below state.nextTrackerId
C17_ListedIdsBelowNext ==
    /\ \A i, j \in 1..Len(customTrackers) :
          i < j => customTrackers[i].id < customTrackers[j].id
    /\ \A i \in 1..Len(customTrackers) : customTrackers[i].id <= issued
    /\ issued < nextTrackerId

\* C17: every id addCustomTracker issues is strictly greater than every id
\* issued before it, whether that tracker is still listed, was removed, or was
\* issued before the page was saved and loaded again; and in every state the
\* listed ids are pairwise distinct and all smaller than state.nextTrackerId.
C17_IdsStrictlyIncrease ==
    /\ []C17_ListedIdsBelowNext
    /\ [][\A nameText \in NameInputs, defaultText \in SessionDefaultInputs :
             (trim(nameText) # << >> /\ AddCustomTrackerWith(nameText, defaultText)) =>
                 /\ customTrackers'[Len(customTrackers')].id > issued
                 /\ issued' = customTrackers'[Len(customTrackers')].id]_vars

\* the page was loaded after ids 1 and 2 were issued and both trackers removed
C17_Witness ==
    /\ lastOp.name = "load"
    /\ issued = 2
    /\ customTrackers = << >>
    /\ nextTrackerId = 3
    /\ state = loadState(InitState, storage)

\* C18 as stated: toggleTrackerVisibility(ref) flips the flag of ref, an absent
\* entry counting as true: toggling a ref without an entry leaves it false, and
\* two toggles in a row leave ref visible iff it was visible (absent counting
\* as visible) before.
C18_ToggleFlipsAbsentAsVisible ==
    \A ref \in {"librarian", "cannon", "command"} \cup ListedKeys :
        LET shown(c) == IF ref \in DOMAIN c.visibility THEN c.visibility[ref] ELSE TRUE
            once == toggleTrackerVisibility(state, ref)
            twice == toggleTrackerVisibility(once, ref)
        IN  /\ ref \in DOMAIN once.visibility
            /\ once.visibility[ref] = ~shown(state)
            /\ shown(twice) = shown(state)

\* the state object that a new page loads from what saveState writes now
RoundTrip == loadState(InitState, saveState(state))

\* the fields of the state object that C19 lists
ListedFields(c) ==
    <<c.timer.minutes, c.timer.seconds, c.timer.defaultMinutes,
      c.psychicPoints, c.cannonPoints, c.commandPoints,
      c.customTrackers, c.nextTrackerId, c.visibility>>

\* C19 as stated: saveState followed by loadState into a new default state
\* reproduces remaining minutes and seconds, configured duration, the fixed
\* counters, the custom list, state.nextTrackerId and the visibility map, and
\* only the running flag and the interval handles are not restored.
C19_RoundTripAllButHandles ==
    RoundTrip = [state EXCEPT !.timer.isRunning = FALSE,
                              !.timer.intervalId = NULL,
                              !.timer.alarmIntervalId = NULL]

\* C19 amended: saveState followed by loadState into a new default state
\* reproduces remaining minutes and seconds, configured duration, the fixed
\* counters, the custom list (order, ids, names, defaults, values),
\* state.nextTrackerId and the visibility map; the running flag, the two
\* interval handles and the two chime flags are not restored: after the load
\* the clock is not running, both handles are null and both flags are false.
C19_RoundTripButFlags ==
    /\ ListedFields(RoundTrip) = ListedFields(state)
    /\ RoundTrip.timer.isRunning = FALSE
    /\ RoundTrip.timer.intervalId = NULL
    /\ RoundTrip.timer.alarmIntervalId = NULL
    /\ RoundTrip.timer.oneMinuteChimePlayed = FALSE
    /\ RoundTrip.timer.thirtySecondChimePlayed = FALSE
    /\ DOMAIN RoundTrip = DOMAIN state
    /\ DOMAIN RoundTrip.timer = DOMAIN state.timer

\* the clock is running at 0:59 with the one-minute chime played; a tracker
\* loaded from a first-revision snapshot (no visibility entry) and a hidden one
\* with value 0 are listed
C19_Witness ==
    /\ timer.isRunning
    /\ timer.oneMinuteChimePlayed
    /\ timer.minutes = 0
    /\ timer.seconds = 59
    /\ cannonPoints = 0
    /\ Len(customTrackers) = 2
    /\ CustomKey(customTrackers[1].id) \notin DOMAIN visibility
    /\ customTrackers[2].value = 0
    /\ visibility[CustomKey(customTrackers[2].id)] = FALSE
    /\ nextTrackerId = 3
    /\ RoundTrip # state

\* a snapshot without its showLibrarian property
withoutShowLibrarian(data) == [k \in DOMAIN data \ {"showLibrarian"} |-> data[k]]

\* C20: loading a snapshot that has showLibrarian = false and no visibility
\* map gives a visibility map with librarian = false, cannon and command true
\* and no listed custom tracker hidden (none has an entry); loading a snapshot
\* that has a visibility map gives what the same snapshot without showLibrarian
\* gives; and the page just loaded is in the state loadState gives.
C20_LegacyMigration ==
    /\ storage # << >> =>
          LET data == storage[1]
              loaded == loadState(InitState, storage)
          IN  /\ (~Has(data, "visibility") /\ Has(data, "showLibrarian")
                      /\ data.showLibrarian = FALSE) =>
                     /\ loaded.visibility["librarian"] = FALSE
                     /\ loaded.visibility["cannon"] = TRUE
                     /\ loaded.visibility["command"] = TRUE
                     /\ \A i \in 1..Len(loaded.customTrackers) :
                           LET key == CustomKey(loaded.customTrackers[i].id)
                           IN  key \in DOMAIN loaded.visibility => loaded.visibility[key]
              /\ Has(data, "visibility") =>
                     loaded = loadState(InitState, <<withoutShowLibrarian(data)>>)
    /\ lastOp.name \in {"init", "load"} => state = loadState(InitState, storage)

\* the page was loaded over a first-revision snapshot with the librarian
\* hidden and one custom tracker
C20_Witness ==
    /\ lastOp.name = "load"
    /\ storage # << >>
    /\ ~Has(storage[1], "visibility")
    /\ Has(storage[1], "showLibrarian")
    /\ storage[1].showLibrarian = FALSE
    /\ visibility["librarian"] = FALSE
    /\ visibility["cannon"] = TRUE
    /\ Len(customTrackers) = 1
    /\ DOMAIN visibility = {"librarian", "cannon", "command"}

\* the defaults spec section 4.5 documents
DocumentedDefaults ==
    [timer |-> [minutes |-> 3, seconds |-> 0, isRunning |-> FALSE,
                intervalId |-> NULL, defaultMinutes |-> 3,
                alarmIntervalId |-> NULL, oneMinuteChimePlayed |-> FALSE,
                thirtySecondChimePlayed |-> FALSE],
     psychicPoints |-> 20,
     cannonPoints |-> 10,
     commandPoints |-> 0,
     customTrackers |-> << >>,
     nextTrackerId |-> 1,
     visibility |-> [librarian |-> TRUE, cannon |-> TRUE, command |-> TRUE]]

\* C21: with nothing stored, or with a stored text that is not JSON, loadState
\* on the new page's state object returns normally and leaves it at the
\* documented defaults (clock 3:00 of 3, psychic 20, cannon 10, command 0, no
\* custom trackers, next id 1, librarian, cannon and command visible), and the
\* page just loaded over such a storage is in that state.
C21_NothingOrGarbageLoadsDefaults ==
    (storage = << >> \/ ~parses(storage[1])) =>
        /\ loadState(InitState, storage) = DocumentedDefaults
        /\ lastOp.name \in {"init", "load"} => state = DocumentedDefaults

\* the page was loaded again over a stored text that is not JSON
C21_Witness ==
    /\ lastOp.name = "load"
    /\ storage = <<SyntaxErrorText>>
    /\ state = DocumentedDefaults
    /\ timerDisplay = {}

\* on the page just loaded over a stored text that parses
LoadedFromObject ==
    /\ lastOp.name \in {"init", "load"}
    /\ storage # << >>
    /\ parses(storage[1])

\* C22: on the page just loaded over a snapshot that parses, every recognised
\* field holds the stored value when that value is present and in range, and
\* the hardcoded default otherwise: points are the stored non-negative number
\* or 20, 10 and 0, the clock fields are the stored numbers in range or 3:00
\* of 3, the next id is the stored positive number or 1.
C22_InvalidFieldsGetDefaults ==
    LoadedFromObject =>
        LET data == storage[1]
            pick(obj, key, lo, hi, fallback) ==
                IF Has(obj, key) /\ obj[key] >= lo /\ obj[key] <= hi
                THEN obj[key] ELSE fallback
            atLeast(obj, key, lo, fallback) ==
                IF Has(obj, key) /\ obj[key] >= lo THEN obj[key] ELSE fallback
            tm == IF Has(data, "timer") THEN data.timer ELSE << >>
        IN  /\ timer.minutes = pick(tm, "minutes", 0, MaxMinutes, LoadedMinutes)
            /\ timer.seconds = pick(tm, "seconds", 0, SecondsPerMinute - 1, LoadedSeconds)
            /\ timer.defaultMinutes
                  = pick(tm, "defaultMinutes", MinMinutes, MaxMinutes, LoadedDefaultMinutes)
            /\ psychicPoints = atLeast(data, "psychicPoints", 0, LoadedPsychic)
            /\ cannonPoints = atLeast(data, "cannonPoints", 0, LoadedCannon)
            /\ commandPoints = atLeast(data, "commandPoints", 0, LoadedCommand)
            /\ nextTrackerId = atLeast(data, "nextTrackerId", 1, LoadedTrackerId)

\* C23: on the page just loaded over a snapshot that parses, every key of the
\* visibility map is librarian, cannon, command or custom-<id> of a tracker in
\* the loaded list.
C23_OnlyKnownVisibilityKeys ==
    LoadedFromObject =>
        DOMAIN visibility \subseteq {"librarian", "cannon", "command"} \cup ListedKeys

----------------------------------------------------------------------------
(* Properties of saving, checked under SpecStorage *)

\* the values a snapshot is to hold: remaining minutes and seconds, configured
\* duration, fixed counters, custom list, next id and visibility map
Persisted(st) ==
    [timer |-> [minutes |-> st.timer.minutes, seconds |-> st.timer.seconds,
                defaultMinutes |-> st.timer.defaultMinutes],
     psychicPoints |-> st.psychicPoints,
     cannonPoints |-> st.cannonPoints,
     commandPoints |-> st.commandPoints,
     customTrackers |-> st.customTrackers,
     nextTrackerId |-> st.nextTrackerId,
     visibility |-> st.visibility]

\* C24: while setItem works, every handler step that changes one of the
\* persisted values (a tick that changes the remaining time, reset, configure,
\* adjust, reset to default, add, remove, visibility toggle or set) ends with
\* the stored snapshot holding exactly the persisted values of the new state.
C24_SavedAfterEveryMutation ==
    [][(~storageFull /\ lastOp'.name # "host" /\ Persisted(state') # Persisted(state))
          => storage' = <<Persisted(state')>>]_vars

\* a tick has just been saved, after a write that failed was made up for and
\* a tracker was added and removed
C24_Witness ==
    /\ ~storageFull
    /\ lastOp.name = "tick"
    /\ timer.minutes = 0
    /\ timer.seconds = SecondsPerMinute - 1
    /\ timer.defaultMinutes = 1
    /\ nextTrackerId = 2
    /\ storage = <<Persisted(state)>>

\* the state objects the counter and visibility handlers can leave
CounterResults ==
    {adjustPoints(state, type, delta) : type \in AdjustTypes, delta \in {1, 0 - 1}}
    \cup {resetPoints(state, call[1], call[2]) : call \in ResetPointsCalls}
    \cup {resetCommandPoints(state)}
    \cup {addCustomTracker(state, n, d) : n \in NameInputs, d \in SessionDefaultInputs}
    \cup {resetCustomTracker(state, id) : id \in TriedIds}
    \cup {removeCustomTracker(state, id) : id \in TriedIds}
    \cup {toggleTrackerVisibility(state, tracker) : tracker \in ListedKeys}
    \cup {handleMenuCheckboxChange(state, tracker, checked) :
             tracker \in MenuRefs, checked \in BOOLEAN}

\* the clocks the timer handlers can leave
ClockResults ==
    {startTimer(W).timer, resetTimer(W).timer, tickCallback(W).timer}
    \cup {setTimerMinutes(W, minutes).timer : minutes \in MinutesInputs}

\* C25: while setItem throws, every handler step returns normally with the
\* state object the handler leaves when the write succeeds, and the stored
\* snapshot is what it was before the step; the handlers stay enabled, so the
\* steps that follow work on the state object in the same way.
C25_FailedWriteKeepsStateAndSnapshot ==
    [][(storageFull /\ lastOp'.name # "host") =>
          /\ storage' = storage
          /\ lastOp'.name = "counter" => state' \in CounterResults
          /\ lastOp'.name # "counter" =>
                /\ timer' \in ClockResults
                /\ UNCHANGED counterVars]_vars

\* setItem throws; the last successful write was of a listed tracker with it
\* and the librarian visible, and since then the handlers have hidden both
C25_Witness ==
    /\ storageFull
    /\ lastOp.name = "counter"
    /\ storage # << >>
    /\ Len(customTrackers) = 1
    /\ storage[1].customTrackers = customTrackers
    /\ storage[1].visibility["librarian"]
    /\ storage[1].visibility[CustomKey(1)]
    /\ ~visibility["librarian"]
    /\ ~visibility[CustomKey(1)]

----------------------------------------------------------------------------
(* Properties of the low style, checked under SpecCounters *)

\* the counters with a points element on the page
DisplayedRefs == {"psychic", "cannon", "command"} \cup ListedKeys

\* 0 < v <= 3
IsLow(v) == v > 0 /\ v <= 3

\* C26: every displayed counter, fixed or custom, carries the low style
\* exactly when its value v satisfies 0 < v <= 3.
C26_LowStyleMatchesValue ==
    \A ref \in DisplayedRefs : ref \in lowStyle <=> IsLow(valueOf(state, ref))

----------------------------------------------------------------------------
(* Further properties of the countdown clock, checked under SpecTimer *)

\* C27: remaining minutes are in 0..60, remaining seconds in 0..59 and the
\* configured duration in 1..60 (setTimerMinutes clamps every input into
\* 1..60); wherever a tick can be delivered, a tick of the running clock above
\* 0:00 takes exactly one second off the remaining time, borrowing m:00 to
\* (m-1):59, and a tick at 0:00 leaves minutes and seconds at 0.
C27_ClockRangeAndUnitTicks ==
    /\ timer.minutes \in 0..MaxMinutes
    /\ timer.seconds \in 0..(SecondsPerMinute - 1)
    /\ timer.defaultMinutes \in MinMinutes..MaxMinutes
    /\ \A minutes \in {Num(n) : n \in (0 - MaxMinutesInput)..(MaxMinutes + MaxMinutesInput)}
                      \cup {NaN} :
          setTimerMinutes(W, minutes).timer.defaultMinutes \in MinMinutes..MaxMinutes
    /\ TickIntervals # {} =>
          LET after == tickCallback(W).timer
          IN  /\ (timer.isRunning /\ totalSeconds(timer) > 0) =>
                    /\ totalSeconds(after) = totalSeconds(timer) - 1
                    /\ after.seconds \in 0..(SecondsPerMinute - 1)
                    /\ timer.seconds = 0 =>
                          /\ after.minutes = timer.minutes - 1
                          /\ after.seconds = SecondsPerMinute - 1
              /\ totalSeconds(timer) = 0 => after.minutes = 0 /\ after.seconds = 0

\* a tick has just borrowed the last minute of a one-minute run
C27_Witness ==
    /\ lastOp.name = "tick"
    /\ timer.isRunning
    /\ timer.defaultMinutes = 1
    /\ timer.minutes = 0
    /\ timer.seconds = SecondsPerMinute - 1
    /\ run.ticks = 1

\* C28: setTimerMinutes(m) on a running clock changes the configured duration
\* (to m clamped into 1..60, or 3 when m is not a number or 0) and nothing
\* else: remaining minutes and seconds, the running flag, the interval handles,
\* the chime flags, the host's intervals and the display are as before, a tick
\* then still takes one second off, and resetTimer then sets the remaining
\* time to the new duration; and right after any resetTimer the remaining time
\* is the configured duration.
C28_ConfigureWhileRunning ==
    /\ timer.isRunning =>
          \A minutes \in MinutesInputs :
              LET after == setTimerMinutes(W, minutes)
                  duration == IF minutes.ok /\ minutes.n # 0
                              THEN Max(1, Min(60, minutes.n)) ELSE 3
              IN  /\ after.timer = [timer EXCEPT !.defaultMinutes = duration]
                  /\ after.intervals = intervals
                  /\ after.display = timerDisplay
                  /\ (TickIntervals # {} /\ totalSeconds(timer) > 0) =>
                        /\ tickCallback(after).timer.isRunning
                        /\ totalSeconds(tickCallback(after).timer) = totalSeconds(timer) - 1
                  /\ resetTimer(after).timer.minutes = duration
                  /\ resetTimer(after).timer.seconds = 0
    /\ lastOp.name = "reset" =>
          timer.minutes = timer.defaultMinutes /\ timer.seconds = 0

\* the clock was started at 3:00, ticked once and was then set to 2 minutes
C28_Witness ==
    /\ lastOp = Op("configure", Num(2))
    /\ timer.isRunning
    /\ TickIntervals # {}
    /\ timer.defaultMinutes = 2
    /\ timer.minutes = 2
    /\ timer.seconds = SecondsPerMinute - 1

----------------------------------------------------------------------------
(* Further properties of the page sessions, checked under SpecSession *)

\* C29: every tracker in the custom list has an entry custom-<id> in the
\* visibility map, and toggleTrackerVisibility on a listed tracker that is not
\* hidden hides it.
C29_ListedHaveVisibilityEntry ==
    \A k \in ListedKeys :
        /\ k \in DOMAIN visibility
        /\ visibility[k] => ~toggleTrackerVisibility(state, k).visibility[k]

----------------------------------------------------------------------------
(* Liveness of the countdown, checked under SpecTimerFair *)

\* the clock has finished: not running, tick interval released, alarm repeating
Finished == ~timer.isRunning /\ ~TickActive /\ AlarmActive

\* pauseTimer, resetTimer or setTimerMinutes has just run
Interrupted == lastOp.name \in {"pause", "reset", "configure"}

\* C30: with the host delivering the ticks of an active tick interval, every
\* state with a running clock is followed by a state where the clock has
\* finished (running flag false, no tick interval, alarm interval active) or
\* where pauseTimer, resetTimer or setTimerMinutes has just run.
C30_RunningLeadsToFinished == timer.isRunning ~> (Finished \/ Interrupted)

\* a run of a whole minute has just finished
C30_Witness ==
    /\ Finished
    /\ lastOp.name = "tick"
    /\ run.from = 1
    /\ run.ticks = SecondsPerMinute + 1
    /\ run.completions = 1

----------------------------------------------------------------------------
(* Properties of the alarm and the display, checked under SpecTimer *)

\* C31: whenever the alarm interval is active, the remaining time is 0:00.
C31_AlarmOnlyAtZero == AlarmActive => AtZero

\* the completion event never fires twice while the remaining time stays 0:00
FiredAtMostOnce == fired <= 1

\* C32: the completion event fires at most once while the remaining time
\* stays at 0:00, and once it has fired the clock is not running and has no
\* tick interval until the remaining time is above 0:00 again.
C32_CompletionOncePerEpisode ==
    /\ FiredAtMostOnce
    /\ fired >= 1 => ~timer.isRunning /\ ~TickActive

\* the style classes the remaining time calls for
styleFor(total) ==
    IF total <= DangerSeconds THEN {"danger"}
    ELSE IF total <= WarningSeconds THEN {"warning"}
    ELSE {}

\* C33: after a tick, a completion, resetTimer, setTimerMinutes or a page
\* load the timer display carries danger exactly when at most 10 seconds
\* remain, warning exactly when more than 10 and at most 30 remain, and
\* neither otherwise; in the finished state with the alarm repeating it
\* carries danger.
C33_DisplayMatchesRemaining ==
    /\ lastOp.name \in {"tick", "reset", "configure", "load"} =>
          timerDisplay = styleFor(totalSeconds(timer))
    /\ (AlarmActive /\ AtZero /\ ~timer.isRunning) => "danger" \in timerDisplay

----------------------------------------------------------------------------
(* Properties of the service worker, checked under SpecWorker *)

\* a fetch event on the current cache, for every request, network outcome
\* and outcome of the cache write
FetchCases ==
    {[url |-> url, net |-> net, writeOk |-> writeOk] :
        url \in FetchUrls,
        net \in UNION {NetworkOutcomes(u) : u \in FetchUrls},
        writeOk \in BOOLEAN}

cacheable(response) == response.status = StatusOk /\ response.type = "basic"

\* the cache holds at url what it held before
keepsEntries(before, after, urls) ==
    \A u \in urls : (u \in DOMAIN after) /\ after[u] = before[u]

\* C34: a request that matches a cache entry is answered with that entry and
\* no network fetch; on a miss the network response reaches the page unchanged
\* and is stored under the request iff its status is 200 and its type is
\* basic (and the cache write succeeds); a failed cache write leaves the
\* delivered response as it is.
C34_FetchHandling ==
    \A c \in FetchCases :
        c.net \in NetworkOutcomes(c.url) =>
            LET r == onFetch(sw.cache, c.url, c.net, c.writeOk)
                hit == c.url \in DOMAIN sw.cache
            IN  /\ hit => /\ r.delivered = sw.cache[c.url]
                          /\ ~r.fetched
                          /\ r.cache = sw.cache
                /\ (~hit /\ c.net # NetworkFailure) =>
                        /\ r.fetched
                        /\ r.delivered = c.net
                        /\ (c.url \in DOMAIN r.cache) <=> (cacheable(c.net) /\ c.writeOk)
                        /\ (c.url \in DOMAIN r.cache) => r.cache[c.url] = c.net
                        /\ keepsEntries(sw.cache, r.cache, DOMAIN sw.cache)
                        /\ DOMAIN r.cache \subseteq DOMAIN sw.cache \cup {c.url}
                /\ (~hit /\ ~c.writeOk) => r.delivered = c.net

\* a file outside the manifest, stored on an earlier miss, has been answered
\* from the cache without a fetch
C34_Witness ==
    /\ sw.event = "fetch"
    /\ sw.request = "/favicon.ico"
    /\ ~sw.fetched
    /\ sw.delivered = sw.cache["/favicon.ico"]

\* a cacheable response was delivered from the network although its cache
\* write failed
C34_WitnessWriteFailed ==
    /\ sw.event = "fetch"
    /\ sw.fetched
    /\ cacheable(sw.delivered)
    /\ sw.request \notin DOMAIN sw.cache

====
